---- MODULE Spec2Model ----
(***************************************************************************)
(* Model of the serial fuzz engine of sfuzz (src/main.py, class SFuzz):    *)
(* the fuzz loop run(), the transport reconfiguration ser_init()/mkser(),  *)
(* the round trip txrx() and the quiescence drain flushInput().            *)
(*                                                                         *)
(* Time is counted in ticks of 10 ms: the read timeout of the channel      *)
(* (timeout=0.01, main.py:347) is one tick and the idle timeout of the     *)
(* drain (timeout=0.1, main.py:303) is ten ticks.  A blocking read of      *)
(* max_size bytes returns after the read timeout with whatever arrived,    *)
(* or at once when max_size bytes are already buffered.                    *)
(***************************************************************************)
EXTENDS Integers, Sequences, FiniteSets, TLC

VARIABLES
    pc,         \* position of the control thread in run()
    itr,        \* self.itr
    tx_bytes,   \* run(): running transmitted total
    rx_bytes,   \* run(): running received total
    ser,        \* self.ser: 0 is None, otherwise the handle of a channel
    handles,    \* channels open at the operating system: {[id, cfg]}
    nopens,     \* number of channels opened so far (handle ids)
    pend,       \* the configuration drawn by the most recent ser_init
    baudrates, parities, stopbitss, rtsctss, dsrdtrs, xonxoffs,
                \* the six candidate lists of the parameter sweep
    tx,         \* run(): the frame of this iteration
    rx,         \* run(): the response of this iteration
    ret,        \* flushInput(): accumulated bytes
    age,        \* flushInput(): time.time() - tlast, in ticks
    elapsed,    \* ticks since the running flushInput() call started
    lastRx,     \* value of elapsed when a read last returned bytes
    rxbuf,      \* input buffer of the open channel (arrived, unread)
    dev,        \* behaviour of the remote device
    devcnt,     \* bytes the device has sent unsolicited so far
    ops,        \* channel operations of this iteration, in order
    nwrites,    \* frames written since run() started
    reconfAt,   \* iteration index at which the last ser_init began
    rtSince,    \* round trips completed since the last ser_init
    out,        \* record handed to the Logger by the last Reporting step
    wireTx,     \* bytes written to the channel since run() started
    wireRx,     \* bytes the drains of txrx have returned since run() started
    dropped,    \* bytes the drains of mkser have returned, in order
    cls,        \* class of the fuzzer object: "SFuzz" or "MyFuzz"
    ascii,      \* self.ascii
    ascii_newlines, \* self.ascii_newlines
    chunk_size, \* self.chunk_size
    args,       \* main(): the parsed command line
    horizon     \* iterations of the (unbounded) loop that are explored

listVars  == <<baudrates, parities, stopbitss, rtsctss, dsrdtrs, xonxoffs>>
drainVars == <<ret, age, elapsed, lastRx>>
histVars  == <<ops, nwrites, reconfAt, rtSince>>
wireVars  == <<wireTx, wireRx, dropped>>
genVars   == <<cls, ascii, ascii_newlines>>
envVars   == <<args, horizon>>
vars == <<pc, itr, tx_bytes, rx_bytes, ser, handles, nopens, pend, listVars,
          tx, rx, drainVars, rxbuf, dev, devcnt, histVars, out, wireVars,
          genVars, chunk_size, envVars>>

---------------------------------------------------------------------------
\* Bounds of the exploration

\* iterations of the (unbounded) loop that are explored
MaxItr == 21
\* largest chunk_size drawn per iteration (random.randint(1, 32) in the code)
MaxChunk == 2
\* most bytes a talking device delivers during one read
MaxBurst == 2
\* most bytes a talking device sends unsolicited during a run
MaxDev == 6

\* max_size of flushInput (1024 in the code), scaled with MaxChunk: as in
\* the code, it is larger than every frame the loop can generate.
max_size == 4

---------------------------------------------------------------------------
\* Program constants

open_interval == 10
\* flushInput(timeout=0.1): ten ticks of 10 ms
IdleTimeout == 10
\* serial.Serial(timeout=0.01): one tick of 10 ms
ReadTimeout == 1

None == "None"

\* before the first ser_init no configuration has been drawn
NoConfig == [kind |-> "none"]
\* byte values the random source yields in the explored runs
ByteVals == {1, 2}
\* serial.PARITY_*, serial.STOPBITS_*
PARITY_NONE == "N"
PARITY_EVEN == "E"
STOPBITS_ONE == "1"

Min(a, b) == IF a <= b THEN a ELSE b

\* characters are named by strings; CR and LF are "\r" and "\n"
CR == "CR"
LF == "LF"

\* SFuzz.__init__, line 282: self.ascii_newlines
DefaultNewlines == <<(<<CR>>), (<<LF>>), (<<CR, LF>>)>>

NoRec == [kind |-> "none"]

---------------------------------------------------------------------------
\* SFuzz.__init__: the candidate lists

InitLists ==
    /\ baudrates = <<9600, 19200>>
    /\ parities  = <<PARITY_NONE, PARITY_EVEN>>
    /\ stopbitss = <<STOPBITS_ONE>>
    /\ rtsctss   = <<FALSE>>
    /\ dsrdtrs   = <<FALSE>>
    /\ xonxoffs  = <<FALSE>>

Init ==
    /\ InitLists
    /\ pc = "top"
    /\ itr = 0
    /\ tx_bytes = 0
    /\ rx_bytes = 0
    /\ ser = 0
    /\ handles = {}
    /\ nopens = 0
    /\ pend = NoConfig
    /\ tx = <<>>
    /\ rx = <<>>
    /\ ret = <<>>
    /\ age = 0
    /\ elapsed = 0
    /\ lastRx = 0
    /\ rxbuf = <<>>
    /\ dev \in {"silent", "echo"}
    /\ devcnt = 0
    /\ ops = <<>>
    /\ nwrites = 0
    /\ reconfAt = -1
    /\ rtSince = 0
    /\ out = NoRec
    /\ wireTx = 0
    /\ wireRx = 0
    /\ dropped = <<>>
    /\ cls = "SFuzz"
    /\ ascii = FALSE
    /\ ascii_newlines = DefaultNewlines
    /\ chunk_size = 0
    /\ args = None
    /\ horizon = MaxItr

---------------------------------------------------------------------------
\* The channel

IsOpen(s) == \E h \in handles : h.id = s

CfgOf(s) == (CHOOSE h \in handles : h.id = s).cfg

\* one operation on self.ser, with the channel it acted on
ChanOp(name) == [op |-> name, ch |-> ser, cfg |-> CfgOf(ser)]

\* a mkser that opens the new channel without closing the old one
MkserCloseNone(h, s) == h

\* mkser, lines 336-338: close the current channel, if any
MkserClose(h, s) == IF s # 0 THEN {x \in h : x.id # s} ELSE h

\* a mkser that closes the channel and keeps the reference to it
SerKept(s) == s

\* mkser, line 338: self.ser = None
SerAfterClose(s) == 0

\* a loop that does not open the channel before its first iteration
NeedsReopenSkipFirst(i) == i % open_interval = 0 /\ i > 0

\* a loop that reopens one iteration too rarely
NeedsReopenLate(i) == i % (open_interval + 1) = 0

\* run(), line 418: the iterations that reopen the channel
NeedsReopen(i) == i % open_interval = 0

\* a read that hands the newest byte over first
SerReadNewestFirst(buf, n) ==
    LET m == Min(n, Len(buf)) IN [i \in 1..m |-> buf[m + 1 - i]]

\* self.ser.read(n): at most n bytes, the oldest first
SerRead(buf, n) == SubSeq(buf, 1, Min(n, Len(buf)))

\* what the device can deliver while one read blocks: the talker sends
\* MaxDev bytes in all, the stream never runs out and can fill a whole read
Arrivals ==
    IF dev = "talker"
    THEN {[i \in 1..k |-> (devcnt + i) % 256] : k \in 0..Min(MaxBurst, MaxDev - devcnt)}
    ELSE IF dev = "stream"
         THEN {[i \in 1..k |-> (devcnt + i) % 256] : k \in 0..max_size}
         ELSE {<<>>}

\* a draw that always takes the first candidate
ChoiceFirst(list) == {list[1]}

\* random.choice(list), lines 388-393: any element of the list
Choice(list) == {list[i] : i \in 1..Len(list)}

---------------------------------------------------------------------------
\* ser_init (lines 387-397) up to the close in mkser (lines 336-338)
SerInit ==
    /\ pc = "top"
    /\ itr < horizon
    /\ NeedsReopen(itr)
    /\ \E b \in Choice(baudrates), p \in Choice(parities),
          s \in Choice(stopbitss), r \in Choice(rtsctss),
          d \in Choice(dsrdtrs), x \in Choice(xonxoffs) :
          pend' = [baudrate |-> b, parity |-> p, stopbits |-> s,
                   rtscts |-> r, dsrdtr |-> d, xonxoff |-> x]
    /\ handles' = MkserClose(handles, ser)
    /\ ser' = SerAfterClose(ser)
    /\ rxbuf' = <<>>
    /\ reconfAt' = itr
    /\ rtSince' = 0
    /\ pc' = "open"
    /\ UNCHANGED <<itr, tx_bytes, rx_bytes, nopens, listVars, tx, rx, drainVars,
                   dev, devcnt, ops, nwrites, out>>
    /\ UNCHANGED <<wireVars, genVars, chunk_size, envVars>>

\* mkser, lines 339-350: serial.Serial(...) opens the channel or raises;
\* on success flushInput() starts (lines 305-306)
MkserOpenOk ==
    /\ pc = "open"
    /\ nopens' = nopens + 1
    /\ handles' = handles \cup {[id |-> nopens + 1, cfg |-> pend]}
    /\ ser' = nopens + 1
    /\ ret' = <<>>
    /\ age' = 0
    /\ elapsed' = 0
    /\ lastRx' = 0
    /\ pc' = "mkdrain"
    /\ UNCHANGED <<itr, tx_bytes, rx_bytes, pend, listVars, tx, rx, rxbuf,
                   dev, devcnt, histVars, out>>
    /\ UNCHANGED <<wireVars, genVars, chunk_size, envVars>>

\* mkser, line 339: serial.Serial(...) raises; run() ends with the exception
MkserOpenFail ==
    /\ pc = "open"
    /\ pc' = "failed"
    /\ UNCHANGED <<nopens, handles, ser, drainVars>>
    /\ UNCHANGED <<itr, tx_bytes, rx_bytes, pend, listVars, tx, rx, rxbuf,
                   dev, devcnt, histVars, out>>
    /\ UNCHANGED <<wireVars, genVars, chunk_size, envVars>>

MkserOpen == MkserOpenOk \/ MkserOpenFail

\* run(), lines 427-430: count the iteration, draw chunk_size, get_tx
Generate ==
    /\ \/ pc = "iter"
       \/ pc = "top" /\ ~NeedsReopen(itr)
    /\ itr < horizon
    /\ itr' = itr + 1
    /\ \E n \in 1..MaxChunk :
          /\ chunk_size' = n
          /\ tx' \in [1..n -> ByteVals]
    /\ rx' = <<>>
    /\ ops' = <<>>
    /\ out' = NoRec
    /\ pc' = "write"
    /\ UNCHANGED <<tx_bytes, rx_bytes, ser, handles, nopens, pend, listVars,
                   drainVars, rxbuf, dev, devcnt, nwrites, reconfAt, rtSince>>
    /\ UNCHANGED <<wireVars, genVars, envVars>>

\* txrx, line 371: self.ser.write(tx)
Write ==
    /\ pc = "write"
    /\ IF IsOpen(ser)
       THEN /\ ops' = Append(ops, ChanOp("write"))
            /\ nwrites' = nwrites + 1
            /\ wireTx' = wireTx + Len(tx)
            /\ rxbuf' = IF dev = "echo" THEN rxbuf \o tx ELSE rxbuf
            /\ pc' = "flush"
       ELSE /\ pc' = "crashed"
            /\ UNCHANGED <<ops, nwrites, wireTx, rxbuf>>
    /\ UNCHANGED <<itr, tx_bytes, rx_bytes, ser, handles, nopens, pend, listVars,
                   tx, rx, drainVars, dev, devcnt, reconfAt, rtSince, out>>
    /\ UNCHANGED <<wireRx, dropped, genVars, chunk_size, envVars>>

\* txrx, lines 377-379: self.ser.flush(), then flushInput() starts
Flush ==
    /\ pc = "flush"
    /\ IF IsOpen(ser)
       THEN /\ ops' = Append(ops, ChanOp("flush"))
            /\ ret' = <<>>
            /\ age' = 0
            /\ elapsed' = 0
            /\ lastRx' = 0
            /\ pc' = "drain"
       ELSE /\ pc' = "crashed"
            /\ UNCHANGED <<ops, drainVars>>
    /\ UNCHANGED <<itr, tx_bytes, rx_bytes, ser, handles, nopens, pend, listVars,
                   tx, rx, rxbuf, dev, devcnt, nwrites, reconfAt, rtSince, out>>
    /\ UNCHANGED <<wireVars, genVars, chunk_size, envVars>>

\* a drain without the size cap
DrainingNoCap == age < IdleTimeout

\* a drain that compares with <= instead of <
DrainingLate == age <= IdleTimeout /\ Len(ret) < max_size

\* flushInput, line 307: the loop condition
Draining == age < IdleTimeout /\ Len(ret) < max_size

\* a drain that never resets tlast
NextAgeNoReset(a, buf, dt) == a + dt

\* flushInput, lines 309-311: tlast is reset when the read returned bytes
NextAge(a, buf, dt) == IF Len(buf) > 0 THEN 0 ELSE a + dt

\* a round trip that writes the frame again when nothing came back
TxrxRetry(r) == IF r = <<>> THEN "write" ELSE "report"

\* txrx, line 385, and run(), lines 434-435: the drained bytes go back to
\* run(), which goes on to the totals whatever their number
TxrxDone(r) == "report"

\* a drain that puts what it has just read in front
AccumulateFront(r, buf) == buf \o r

\* flushInput, line 310: ret += buf
Accumulate(r, buf) == r \o buf

\* flushInput, lines 307-311: one pass of the loop
FlushInputRead ==
    /\ pc \in {"mkdrain", "drain"}
    /\ Draining
    /\ IF IsOpen(ser)
       THEN \E arr \in Arrivals :
              LET dt    == IF Len(rxbuf) >= max_size THEN 0 ELSE ReadTimeout
                  avail == IF dt = 0 THEN rxbuf ELSE rxbuf \o arr
                  buf   == SerRead(avail, max_size)
              IN  /\ devcnt' = IF dt = 0 THEN devcnt ELSE devcnt + Len(arr)
                  /\ rxbuf' = SubSeq(avail, Len(buf) + 1, Len(avail))
                  /\ elapsed' = elapsed + dt
                  /\ ret' = Accumulate(ret, buf)
                  /\ age' = NextAge(age, buf, dt)
                  /\ lastRx' = IF Len(buf) > 0 THEN elapsed + dt ELSE lastRx
                  /\ pc' = pc
       ELSE /\ pc' = "crashed"
            /\ UNCHANGED <<devcnt, rxbuf, drainVars>>
    /\ UNCHANGED <<itr, tx_bytes, rx_bytes, ser, handles, nopens, pend, listVars,
                   tx, rx, dev, histVars, out>>
    /\ UNCHANGED <<wireVars, genVars, chunk_size, envVars>>

\* an mkser that counts what its drain read as received
RxBytesAfterMkserCounted(n, r) == n + Len(r)

\* mkser, line 350: self.flushInput() is a statement; its result is bound to
\* nothing and no total is touched
RxBytesAfterMkser(n, r) == n

\* flushInput, line 312: return ret, to mkser (line 350, result dropped)
\* or to txrx (lines 379-385, result returned to run)
FlushInputReturn ==
    /\ pc \in {"mkdrain", "drain"}
    /\ ~Draining
    /\ IF pc = "mkdrain"
       THEN /\ pc' = "iter"
            /\ dropped' = dropped \o ret
            /\ rx_bytes' = RxBytesAfterMkser(rx_bytes, ret)
            /\ UNCHANGED <<rx, ops, rtSince, wireRx>>
       ELSE /\ rx' = ret
            /\ ops' = Append(ops, ChanOp("drain"))
            /\ rtSince' = rtSince + 1
            /\ wireRx' = wireRx + Len(ret)
            /\ pc' = TxrxDone(ret)
            /\ UNCHANGED <<dropped, rx_bytes>>
    /\ UNCHANGED <<itr, tx_bytes, ser, handles, nopens, pend, listVars,
                   tx, drainVars, rxbuf, dev, devcnt, nwrites, reconfAt, out>>
    /\ UNCHANGED <<wireTx, genVars, chunk_size, envVars>>

\* a loop that counts the frame only when bytes came back
NextTxBytesAfterContinue(t, f, r) == IF Len(r) = 0 THEN t ELSE t + Len(f)

\* run(), line 435: tx_bytes += len(tx), before the test of rx
NextTxBytes(t, f, r) == t + Len(f)

\* a loop that reports every round trip
ShouldLogAlways(r) == TRUE

\* run(), lines 436-437: an empty response ends the iteration here
ShouldLog(r) == Len(r) # 0

\* a loop that stops at the first empty response
AfterReportBreak(r) == IF Len(r) = 0 THEN "done" ELSE "top"

\* run(), lines 417, 437 and 445: continue, or fall off the end of the
\* body, back to the top of while True
AfterReport(r) == "top"

\* run(), lines 414-416 and 440-441: the locals baudrate, parity and
\* stopbits are set to None and never assigned again
ReportedConfig == [baudrate |-> None, parity |-> None, stopbits |-> None]

\* run(), lines 435-445: the totals and the record for the Logger
Report ==
    /\ pc = "report"
    /\ tx_bytes' = NextTxBytes(tx_bytes, tx, rx)
    /\ IF ~ShouldLog(rx)
       THEN UNCHANGED <<rx_bytes, out>>
       ELSE /\ rx_bytes' = rx_bytes + Len(rx)
            /\ out' = [kind |-> "record", tx |-> tx, rx |-> rx,
                       baudrate |-> ReportedConfig.baudrate,
                       parity |-> ReportedConfig.parity,
                       stopbits |-> ReportedConfig.stopbits]
    /\ pc' = AfterReport(rx)
    /\ UNCHANGED <<itr, ser, handles, nopens, pend, listVars, tx, rx, drainVars,
                   rxbuf, dev, devcnt, histVars>>
    /\ UNCHANGED <<wireVars, genVars, chunk_size, envVars>>

Running == pc \notin {"failed", "crashed", "interrupted"}

\* KeyboardInterrupt: the exception unwinds run(); nothing catches it
Interrupt ==
    /\ Running
    /\ pc' = "interrupted"
    /\ tx' = <<>>
    /\ rx' = <<>>
    /\ ret' = <<>>
    /\ age' = 0
    /\ elapsed' = 0
    /\ lastRx' = 0
    /\ UNCHANGED <<itr, tx_bytes, rx_bytes, ser, handles, nopens, pend, listVars,
                   rxbuf, dev, devcnt, histVars, out>>
    /\ UNCHANGED <<wireVars, genVars, chunk_size, envVars>>

Next ==
    \/ SerInit
    \/ MkserOpen
    \/ Generate
    \/ Write
    \/ Flush
    \/ FlushInputRead
    \/ FlushInputReturn
    \/ Report
    \/ Interrupt

Spec == Init /\ [][Next]_vars

---------------------------------------------------------------------------
\* One round trip against a silent, an echoing or a talking device: the
\* state of run() at line 434 of its first iteration, txrx about to start.

Frames == UNION {[1..n -> ByteVals] : n \in 1..MaxChunk}

InitTxrx ==
    /\ InitLists
    /\ pc = "write"
    /\ itr = 1
    /\ tx_bytes = 0
    /\ rx_bytes = 0
    /\ ser = 1
    /\ nopens = 1
    /\ pend \in [baudrate : {9600, 19200}, parity : {PARITY_NONE, PARITY_EVEN},
                  stopbits : {STOPBITS_ONE}, rtscts : {FALSE}, dsrdtr : {FALSE},
                  xonxoff : {FALSE}]
    /\ handles = {[id |-> 1, cfg |-> pend]}
    /\ tx \in Frames \cup {<<1, 2, 3>>}
    /\ rx = <<>>
    /\ ret = <<>>
    /\ age = IdleTimeout
    /\ elapsed = IdleTimeout
    /\ lastRx = 0
    /\ rxbuf = <<>>
    /\ dev \in {"silent", "echo", "talker"}
    /\ devcnt = 0
    /\ ops = <<>>
    /\ nwrites = 0
    /\ reconfAt = 0
    /\ rtSince = 0
    /\ out = NoRec
    /\ wireTx = 0
    /\ wireRx = 0
    /\ dropped = <<>>
    /\ cls = "SFuzz"
    /\ ascii = FALSE
    /\ ascii_newlines = DefaultNewlines
    /\ chunk_size = Len(tx)
    /\ args = None
    /\ horizon = MaxItr

NextTxrx ==
    \/ Write
    \/ Flush
    \/ FlushInputRead
    \/ FlushInputReturn

SpecTxrx == InitTxrx /\ [][NextTxrx]_vars

---------------------------------------------------------------------------
\* A long run of an SFuzz constructed with one candidate per setting
\* (baudrates=[9600], parities=[PARITY_NONE], stopbitss=[STOPBITS_ONE]),
\* followed up to the iteration of the second progress line with a device
\* that never answers, and for MaxItr iterations with one that echoes.

print_interval == 80

InitLong ==
    /\ baudrates = <<9600>>
    /\ parities  = <<PARITY_NONE>>
    /\ stopbitss = <<STOPBITS_ONE>>
    /\ rtsctss   = <<FALSE>>
    /\ dsrdtrs   = <<FALSE>>
    /\ xonxoffs  = <<FALSE>>
    /\ pc = "top"
    /\ itr = 0
    /\ tx_bytes = 0
    /\ rx_bytes = 0
    /\ ser = 0
    /\ handles = {}
    /\ nopens = 0
    /\ pend = NoConfig
    /\ tx = <<>>
    /\ rx = <<>>
    /\ ret = <<>>
    /\ age = 0
    /\ elapsed = 0
    /\ lastRx = 0
    /\ rxbuf = <<>>
    /\ \/ dev = "silent" /\ horizon = print_interval
       \/ dev = "echo" /\ horizon = MaxItr
    /\ devcnt = 0
    /\ ops = <<>>
    /\ nwrites = 0
    /\ reconfAt = -1
    /\ rtSince = 0
    /\ out = NoRec
    /\ wireTx = 0
    /\ wireRx = 0
    /\ dropped = <<>>
    /\ cls = "SFuzz"
    /\ ascii = FALSE
    /\ ascii_newlines = DefaultNewlines
    /\ chunk_size = 0
    /\ args = None

\* the loop while every open succeeds and nobody interrupts
NextLong ==
    \/ SerInit
    \/ MkserOpenOk
    \/ Generate
    \/ Write
    \/ Flush
    \/ FlushInputRead
    \/ FlushInputReturn
    \/ Report

SpecLong == InitLong /\ [][NextLong]_vars

---------------------------------------------------------------------------
\* run() before its first iteration (lines 409-416), the object as
\* __init__ left it (line 267: self.ser = None)
RunStart ==
    /\ pc = "top"
    /\ itr = 0
    /\ tx_bytes = 0
    /\ rx_bytes = 0
    /\ ser = 0
    /\ handles = {}
    /\ nopens = 0
    /\ pend = NoConfig
    /\ tx = <<>>
    /\ rx = <<>>
    /\ ret = <<>>
    /\ age = 0
    /\ elapsed = 0
    /\ lastRx = 0
    /\ rxbuf = <<>>
    /\ devcnt = 0
    /\ ops = <<>>
    /\ nwrites = 0
    /\ reconfAt = -1
    /\ rtSince = 0
    /\ out = NoRec
    /\ wireTx = 0
    /\ wireRx = 0
    /\ dropped = <<>>
    /\ chunk_size = 0

\* the loop is followed past its second reopen
LiveHorizon == open_interval + 1

InitLive ==
    /\ RunStart
    /\ baudrates = <<9600>>
    /\ parities  = <<PARITY_NONE>>
    /\ stopbitss = <<STOPBITS_ONE>>
    /\ rtsctss   = <<FALSE>>
    /\ dsrdtrs   = <<FALSE>>
    /\ xonxoffs  = <<FALSE>>
    /\ dev \in {"silent", "echo"}
    /\ cls = "SFuzz"
    /\ ascii = FALSE
    /\ ascii_newlines = DefaultNewlines
    /\ args = None
    /\ horizon = LiveHorizon

\* The loop while every open succeeds and nobody interrupts. The
\* interpreter keeps executing the one thread of run(), and a blocked read
\* returns when its timeout expires: a step that can be taken is taken.
SpecLive == InitLive /\ [][NextLong]_vars /\ WF_vars(NextLong)

---------------------------------------------------------------------------
\* A run against a device that sends on its own, so that bytes can be
\* waiting when mkser drains the channel it has just opened; followed for
\* the first MaxStaleItr iterations.

MaxStaleItr == 2

InitStale ==
    /\ RunStart
    /\ baudrates = <<9600>>
    /\ parities  = <<PARITY_NONE>>
    /\ stopbitss = <<STOPBITS_ONE>>
    /\ rtsctss   = <<FALSE>>
    /\ dsrdtrs   = <<FALSE>>
    /\ xonxoffs  = <<FALSE>>
    /\ dev = "talker"
    /\ cls = "SFuzz"
    /\ ascii = FALSE
    /\ ascii_newlines = DefaultNewlines
    /\ args = None
    /\ horizon = MaxStaleItr

SpecStale == InitStale /\ [][NextLong]_vars

---------------------------------------------------------------------------
\* One call of flushInput, the one mkser makes on the channel it has just
\* opened, against a device that can go on sending for ever; up to
\* max_size + 1 bytes are already waiting when the call starts. The bytes
\* of the device are numbered in the order they are sent.

InitDrain ==
    /\ InitLists
    /\ pc = "mkdrain"
    /\ itr = 0
    /\ tx_bytes = 0
    /\ rx_bytes = 0
    /\ ser = 1
    /\ nopens = 1
    /\ pend = [baudrate |-> 9600, parity |-> PARITY_NONE,
               stopbits |-> STOPBITS_ONE, rtscts |-> FALSE, dsrdtr |-> FALSE,
               xonxoff |-> FALSE]
    /\ handles = {[id |-> 1, cfg |-> pend]}
    /\ tx = <<>>
    /\ rx = <<>>
    /\ ret = <<>>
    /\ age = 0
    /\ elapsed = 0
    /\ lastRx = 0
    /\ \E k \in 0..(max_size + 1) :
          /\ rxbuf = [i \in 1..k |-> i % 256]
          /\ devcnt = k
    /\ dev = "stream"
    /\ ops = <<>>
    /\ nwrites = 0
    /\ reconfAt = 0
    /\ rtSince = 0
    /\ out = NoRec
    /\ wireTx = 0
    /\ wireRx = 0
    /\ dropped = <<>>
    /\ cls = "SFuzz"
    /\ ascii = FALSE
    /\ ascii_newlines = DefaultNewlines
    /\ chunk_size = 0
    /\ args = None
    /\ horizon = MaxItr

NextDrain ==
    \/ FlushInputRead
    \/ FlushInputReturn

\* every read returns, with or without bytes, when its timeout expires, and
\* the interpreter keeps executing the call
SpecDrain == InitDrain /\ [][NextDrain]_vars /\ WF_vars(NextDrain)

---------------------------------------------------------------------------
\* main(): from the command line to the candidate lists of the object

PARITY_ODD == "O"
PARITY_MARK == "M"
PARITY_SPACE == "S"
STOPBITS_ONE_POINT_FIVE == "1.5"
STOPBITS_TWO == "2"

\* __init__, line 284
DefaultBaudrates == <<9600, 19200, 38400, 115200>>

\* __init__, lines 285-288, and main(), lines 468-471
AllParities ==
    <<PARITY_NONE, PARITY_EVEN, PARITY_ODD, PARITY_MARK, PARITY_SPACE>>

\* __init__, lines 289-292, and main(), lines 472-475
AllStopbits == <<STOPBITS_ONE, STOPBITS_ONE_POINT_FIVE, STOPBITS_TWO>>

\* a list argument left at None, and one that is given
NoList == [given |-> FALSE, list |-> <<>>]
Given(l) == [given |-> TRUE, list |-> l]

\* the options that reach the candidate lists; --baudrate is 0 when absent
\* (its default None and 0 are both false at line 464)
ArgSets == [aggressive : BOOLEAN, baudrate : {0, 9600}]

\* main(), lines 460 and 464-465
MainBaudrates(a) == IF a.baudrate # 0 THEN Given(<<a.baudrate>>) ELSE NoList

\* main(), lines 461 and 467-471
MainParities(a) == IF a.aggressive THEN Given(AllParities) ELSE NoList

\* main(), lines 462 and 467, 472-475
MainStopbitss(a) == IF a.aggressive THEN Given(AllStopbits) ELSE NoList

\* __init__, lines 284-301: the default list unless the argument is given
CtorList(default, arg) == IF arg.given THEN arg.list ELSE default

InitMain ==
    /\ RunStart
    /\ args \in ArgSets
    /\ baudrates = CtorList(DefaultBaudrates, MainBaudrates(args))
    /\ parities  = CtorList(AllParities, MainParities(args))
    /\ stopbitss = CtorList(AllStopbits, MainStopbitss(args))
    /\ rtsctss   = <<FALSE>>
    /\ dsrdtrs   = <<FALSE>>
    /\ xonxoffs  = <<FALSE>>
    /\ dev \in {"silent", "echo"}
    /\ cls = "SFuzz"
    /\ ascii = FALSE
    /\ ascii_newlines = DefaultNewlines
    /\ horizon = 1

SpecMain == InitMain /\ [][Next]_vars

---------------------------------------------------------------------------
\* get_tx: one call of the frame generator, of SFuzz (main.py:353-368) and
\* of MyFuzz with ascii off (micromill.py:54-68). Characters are one-letter
\* strings, CR and LF the two control characters; frames are sequences of
\* byte values. In this part ret is the local ret of MyFuzz.get_tx.

\* string.ascii_uppercase and string.digits
Upper ==
    <<"A", "B", "C", "D", "E", "F", "G", "H", "I", "J", "K", "L", "M",
      "N", "O", "P", "Q", "R", "S", "T", "U", "V", "W", "X", "Y", "Z">>
Digits == <<"0", "1", "2", "3", "4", "5", "6", "7", "8", "9">>

\* get_tx, line 356: string.ascii_uppercase + string.digits
AsciiAlphabet == Upper \o Digits

\* ord(c) of the characters that occur
Ord(c) ==
    IF c = CR THEN 13
    ELSE IF c = LF THEN 10
    ELSE IF \E i \in 1..Len(Upper) : Upper[i] = c
         THEN 64 + (CHOOSE i \in 1..Len(Upper) : Upper[i] = c)
         ELSE 47 + (CHOOSE i \in 1..Len(Digits) : Digits[i] = c)

\* tobytes, lines 173-176: bytearray([ord(c) for c in buff])
tobytes(buff) == [i \in 1..Len(buff) |-> Ord(buff[i])]

\* rand_ascii(n), lines 354-357: n draws from the alphabet, joined;
\* range(n) is empty when n <= 0
RECURSIVE rand_ascii(_)
rand_ascii(n) ==
    IF n <= 0
    THEN {<<>>}
    ELSE {Append(str, c) : str \in rand_ascii(n - 1), c \in Choice(AsciiAlphabet)}

\* a generator that never sets the high bit
RandByte7Bit == 0..127

\* get_tx, line 368: random.randint(0, 255)
RandByte == 0..255

\* MyFuzz.get_tx, line 58: random.randint(0, 127)
MyRandByte == 0..127

\* [draw for _i in range(n)]: n independent draws from vals
RECURSIVE RandBytes(_, _)
RandBytes(n, vals) ==
    IF n = 0
    THEN {<<>>}
    ELSE {Append(f, b) : f \in RandBytes(n - 1, vals), b \in vals}

\* SFuzz.get_tx, lines 359-368: the frames one call can return
get_tx(n) ==
    IF ascii
    THEN IF Len(ascii_newlines) > 0
         THEN UNION {{tobytes(str \o newline) :
                         str \in rand_ascii(n - Len(newline))} :
                     newline \in Choice(ascii_newlines)}
         ELSE {tobytes(str) : str \in rand_ascii(n)}
    ELSE RandBytes(n, RandByte)

\* a filter that lets 'Z' through
RejectedNoZ(f) ==
    LET has(b) == \E i \in 1..Len(f) : f[i] = b IN
    \/ has(3) \/ has(131)
    \/ has(27) \/ has(155)
    \/ has(42) \/ has(88) \/ has(89)

\* MyFuzz.get_tx, lines 60-67: 0x03, 0x83, 0x1B, 0x9B, '*', 'X', 'Y', 'Z'
Rejected(f) ==
    LET has(b) == \E i \in 1..Len(f) : f[i] = b IN
    \/ has(3) \/ has(131)
    \/ has(27) \/ has(155)
    \/ has(42) \/ has(88) \/ has(89) \/ has(90)

\* the lists self.ascii_newlines can hold: the default and its sub-lists
NewlineLists ==
    {<<>>, <<(<<CR>>)>>, <<(<<LF>>)>>, <<(<<CR, LF>>)>>,
     <<(<<CR>>), (<<LF>>)>>, <<(<<CR>>), (<<CR, LF>>)>>,
     <<(<<LF>>), (<<CR, LF>>)>>, DefaultNewlines}

\* requested lengths, out of run()'s randint(1, 32) and loop_begin's
\* randint(1, 6)
AsciiLens == {1, 2, 3}
BinaryLens == {1, 2}

InitGen ==
    /\ InitLists
    /\ pc = "get_tx"
    /\ itr = 1
    /\ tx_bytes = 0
    /\ rx_bytes = 0
    /\ ser = 0
    /\ handles = {}
    /\ nopens = 0
    /\ pend = NoConfig
    /\ tx = <<>>
    /\ rx = <<>>
    /\ ret = <<>>
    /\ age = 0
    /\ elapsed = 0
    /\ lastRx = 0
    /\ rxbuf = <<>>
    /\ dev = "silent"
    /\ devcnt = 0
    /\ ops = <<>>
    /\ nwrites = 0
    /\ reconfAt = -1
    /\ rtSince = 0
    /\ out = NoRec
    /\ wireTx = 0
    /\ wireRx = 0
    /\ dropped = <<>>
    /\ args = None
    /\ horizon = MaxItr
    /\ \/ /\ cls = "SFuzz"
          /\ ascii = TRUE
          /\ ascii_newlines \in NewlineLists
          /\ chunk_size \in AsciiLens
       \/ /\ cls \in {"SFuzz", "MyFuzz"}
          /\ ascii = FALSE
          /\ ascii_newlines = DefaultNewlines
          /\ chunk_size \in BinaryLens

\* run(), line 430, on an SFuzz: tx = self.get_tx(self.chunk_size)
GetTx ==
    /\ pc = "get_tx"
    /\ cls = "SFuzz"
    /\ tx' \in get_tx(chunk_size)
    /\ pc' = "returned"
    /\ UNCHANGED <<itr, tx_bytes, rx_bytes, ser, handles, nopens, pend,
                   listVars, rx, drainVars, rxbuf, dev, devcnt, histVars, out,
                   wireVars, genVars, chunk_size, envVars>>

\* MyFuzz.get_tx, lines 56-58: one pass of while True draws a candidate
MyGetTxDraw ==
    /\ pc = "get_tx"
    /\ cls = "MyFuzz"
    /\ ~ascii
    /\ ret' \in RandBytes(chunk_size, MyRandByte)
    /\ pc' = "check"
    /\ UNCHANGED <<itr, tx_bytes, rx_bytes, ser, handles, nopens, pend,
                   listVars, tx, rx, age, elapsed, lastRx, rxbuf, dev, devcnt,
                   histVars, out, wireVars, genVars, chunk_size, envVars>>

\* MyFuzz.get_tx, lines 60-67: continue; the candidate is dropped (the
\* next pass overwrites ret before anything reads it)
MyGetTxReject ==
    /\ pc = "check"
    /\ Rejected(ret)
    /\ ret' = <<>>
    /\ pc' = "get_tx"
    /\ UNCHANGED <<itr, tx_bytes, rx_bytes, ser, handles, nopens, pend,
                   listVars, tx, rx, age, elapsed, lastRx, rxbuf, dev, devcnt,
                   histVars, out, wireVars, genVars, chunk_size, envVars>>

\* MyFuzz.get_tx, line 68: return ret
MyGetTxReturn ==
    /\ pc = "check"
    /\ ~Rejected(ret)
    /\ tx' = ret
    /\ pc' = "returned"
    /\ UNCHANGED <<itr, tx_bytes, rx_bytes, ser, handles, nopens, pend,
                   listVars, rx, drainVars, rxbuf, dev, devcnt, histVars, out,
                   wireVars, genVars, chunk_size, envVars>>

NextGen ==
    \/ GetTx
    \/ MyGetTxDraw
    \/ MyGetTxReject
    \/ MyGetTxReturn

SpecGen == InitGen /\ [][NextGen]_vars

\* One call of MyFuzz.get_tx with ascii off, for a frame of one byte. The
\* interpreter keeps executing the call: a step that can be taken is
\* taken; nothing is assumed about the values the draws produce.
InitMyGen == InitGen /\ cls = "MyFuzz" /\ chunk_size = 1

NextMyGen ==
    \/ MyGetTxDraw
    \/ MyGetTxReject
    \/ MyGetTxReturn

SpecMyGen == InitMyGen /\ [][NextMyGen]_vars /\ WF_vars(NextMyGen)

---------------------------------------------------------------------------
\* Properties

OpNames == [i \in 1..Len(ops) |-> ops[i].op]

\* positions of run() at which ser_init has returned
Configured == {"iter", "write", "flush", "drain", "report"}

\* index of the iteration in progress (itr is incremented at line 427)
Idx == itr - 1

\* C1: at most one channel is open in every state; mkser has closed the
\* previous channel before it opens the next, and once it has opened one,
\* exactly one channel is open: the session's, carrying the parameters
\* drawn by the most recent ser_init.
C1_OneChannel ==
    /\ Cardinality(handles) <= 1
    /\ pc = "open" => handles = {} /\ ser = 0
    /\ pc \in Configured \cup {"mkdrain"} =>
          /\ ser = nopens
          /\ handles = {[id |-> ser, cfg |-> pend]}
    /\ pc = "top" /\ nopens > 0 => handles = {[id |-> ser, cfg |-> pend]}

C1_Witness ==
    /\ pc = "write"
    /\ itr = 11
    /\ nopens = 2
    /\ handles = {[id |-> 2, cfg |-> pend]}
    /\ pend.baudrate = 19200
    /\ pend.parity = PARITY_EVEN

\* C2: every write, flush and drain of an iteration acts on the channel
\* that the most recent ser_init opened, under the configuration it drew;
\* no operation meets an absent or closed channel, the first iteration
\* included, and while a reconfiguration is under way every frame written
\* so far belongs to an earlier iteration.
C2_CurrentChannel ==
    /\ pc # "crashed"
    /\ pc \in {"write", "flush", "drain", "report"} =>
          /\ IsOpen(ser)
          /\ ser = nopens
          /\ CfgOf(ser) = pend
          /\ \A i \in 1..Len(ops) : ops[i].ch = nopens /\ ops[i].cfg = pend
    /\ pc \in {"open", "mkdrain", "iter"} => nwrites = itr

C2_Witness ==
    /\ pc = "report"
    /\ itr = 11
    /\ nopens = 2
    /\ OpNames = <<"write", "flush", "drain">>
    /\ \A i \in 1..3 : ops[i].ch = 2 /\ ops[i].cfg = pend

\* C3: the channel is reconfigured exactly at the iterations whose 0-based
\* index is a multiple of open_interval = 10, before the frame of that
\* iteration is generated; exactly 10 round trips lie between two
\* consecutive reconfigurations.
C3_Cadence ==
    /\ pc \in {"open", "mkdrain", "iter"} =>
          /\ itr % open_interval = 0
          /\ reconfAt = itr
          /\ rtSince = 0
    /\ pc \in {"write", "flush", "drain"} =>
          /\ reconfAt = Idx - (Idx % open_interval)
          /\ rtSince = Idx % open_interval
          /\ nopens = (Idx \div open_interval) + 1
    /\ pc = "report" \/ (pc = "top" /\ itr > 0) =>
          /\ reconfAt = Idx - (Idx % open_interval)
          /\ rtSince = (Idx % open_interval) + 1
          /\ nopens = (Idx \div open_interval) + 1

C3_Witness ==
    /\ pc = "mkdrain"
    /\ itr = 2 * open_interval
    /\ nopens = 3
    /\ nwrites = 2 * open_interval

\* C4: a failed open is fatal: it happens with the previous channel
\* closed and the session holding none, it changes neither the totals nor
\* the iteration counter nor the frames written, and no step of the
\* program follows it.
C4_FatalOpen ==
    [][/\ pc # "failed"
       /\ pc' = "failed" =>
             /\ pc = "open"
             /\ handles' = {}
             /\ ser' = 0
             /\ tx_bytes' = tx_bytes
             /\ rx_bytes' = rx_bytes
             /\ itr' = itr
             /\ nwrites' = nwrites]_vars

C4_Witness ==
    /\ pc = "failed"
    /\ itr = open_interval
    /\ nopens = 1
    /\ handles = {}
    /\ tx_bytes > 0

\* C5: when run() has terminated, by a failed open or by an interrupt, no
\* channel is open.
C5_ClosedOnExit ==
    pc \in {"failed", "interrupted", "crashed"} => handles = {}

\* the window the specification gives the drain is about 100 ms; twice
\* that is allowed here
MaxWindow == 2 * IdleTimeout

\* C6 as stated: a drain returns within maxWindow of its start.
C6_WithinMaxWindow ==
    pc = "report" => elapsed <= MaxWindow

\* C6 as amended: a drain returns when no read has returned bytes for the
\* idle timeout or when max_size bytes are accumulated; only the byte cap
\* bounds its duration, by max_size idle periods.
C6_ByteCapBound ==
    /\ pc \in {"drain", "report"} => elapsed <= max_size * IdleTimeout
    /\ pc = "report" => age >= IdleTimeout \/ Len(rx) >= max_size

C6_Witness ==
    /\ pc = "report"
    /\ dev = "talker"
    /\ elapsed > MaxWindow
    /\ Len(rx) >= max_size
    /\ age < IdleTimeout

\* C7: against a device that never sends, every drain (the one of mkser
\* and the one of txrx) returns the empty sequence, without an error, no
\* later than the idle timeout after it started.
C7_SilentDrain ==
    dev = "silent" =>
        /\ pc # "crashed"
        /\ ret = <<>>
        /\ rx = <<>>
        /\ elapsed <= IdleTimeout
        /\ pc \in {"iter", "report"} => elapsed = IdleTimeout

C7_Witness ==
    /\ dev = "silent"
    /\ pc = "report"
    /\ itr = 1
    /\ rx = <<>>
    /\ elapsed = IdleTimeout

\* what the device has put on the line during the round trip
Delivered ==
    CASE dev = "talker" -> [i \in 1..devcnt |-> i % 256]
      [] dev = "echo"   -> tx
      [] OTHER          -> <<>>

\* C8 as stated: the drain returns every byte that arrived and does not
\* return before the idle timeout has elapsed since the last received byte.
C8_Quiescence ==
    pc = "report" =>
        /\ rx = Delivered
        /\ elapsed - lastRx >= IdleTimeout

\* C8 as amended: the same, for a drain that has accumulated fewer than
\* max_size bytes.
C8_QuiescenceBelowCap ==
    pc = "report" /\ Len(rx) < max_size =>
        /\ rx = Delivered
        /\ rxbuf = <<>>
        /\ elapsed - lastRx >= IdleTimeout
        /\ age >= IdleTimeout

\* a byte in the first 10 ms, a byte at 50 ms, the return at 150 ms
C8_Witness ==
    /\ pc = "report"
    /\ dev = "talker"
    /\ rx = <<1, 2>>
    /\ lastRx = 5
    /\ elapsed = 15

\* C9: a round trip is one write, then one flush, then one drain, and it
\* returns the drained bytes as they are; every iteration writes its frame
\* once, whether or not bytes came back.
C9_OneRoundTrip ==
    /\ pc = "write" => ops = <<>> /\ nwrites = itr - 1
    /\ pc = "flush" => OpNames = <<"write">>
    /\ pc = "drain" => OpNames = <<"write", "flush">>
    /\ pc = "report" => OpNames = <<"write", "flush", "drain">> /\ rx = ret
    /\ pc \in {"flush", "drain", "report", "top", "open", "mkdrain", "iter"} =>
          nwrites = itr

\* an iteration that received nothing is followed by the next one
C9_Witness ==
    /\ pc = "write"
    /\ itr = 2
    /\ dev = "silent"
    /\ rx_bytes = 0
    /\ tx_bytes > 0
    /\ nwrites = 1

\* C10: against a device that echoes at once, the round trip returns the
\* frame it sent, byte for byte and in order, without an error.
C10_Echo ==
    dev = "echo" =>
        /\ pc # "crashed"
        /\ pc = "report" => rx = tx

C10_Witness ==
    /\ dev = "echo"
    /\ pc = "report"
    /\ tx = <<1, 2, 3>>
    /\ rx = <<1, 2, 3>>

\* C11: after every completed iteration the transmitted total is the sum
\* of the lengths of the frames written so far and the received total is
\* the sum of the lengths of the responses drained so far; with a device
\* that never answers the received total stays 0, up to iteration 80.
C11_Totals ==
    /\ pc \in {"top", "open", "mkdrain", "iter"} =>
          /\ tx_bytes = wireTx
          /\ rx_bytes = wireRx
    /\ pc = "report" =>
          /\ tx_bytes + Len(tx) = wireTx
          /\ rx_bytes + Len(rx) = wireRx
    /\ dev = "silent" => rx_bytes = 0
    /\ dev = "echo" /\ pc = "top" => rx_bytes = tx_bytes

C11_Witness ==
    /\ pc = "top"
    /\ dev = "silent"
    /\ itr = print_interval
    /\ nwrites = print_interval
    /\ tx_bytes = wireTx
    /\ tx_bytes > print_interval
    /\ rx_bytes = 0

\* positions of run() between the end of one round trip and the start of
\* the next
BetweenRoundTrips == {"top", "open", "mkdrain", "iter"}

\* C12: a record is forwarded for an iteration exactly when its response is
\* not empty; it carries the frame and the response of that iteration, and
\* nothing is forwarded while the round trip is still in progress.
C12_RecordIffResponse ==
    /\ pc \in BetweenRoundTrips /\ itr > 0 =>
          /\ out.kind = "record" <=> Len(rx) > 0
          /\ out.kind = "record" => out.tx = tx /\ out.rx = rx
    /\ pc \in {"write", "flush", "drain", "report"} => out = NoRec

C12_Witness ==
    /\ pc = "top"
    /\ itr = 2
    /\ Len(rx) > 0
    /\ out.kind = "record"
    /\ out.tx = tx
    /\ out.rx = rx

\* C13: the record forwarded for a response carries the baud rate, parity
\* and stop bits of the channel the frame was sent on.
C13_RecordConfig ==
    out.kind = "record" =>
        /\ out.parity = pend.parity
        /\ out.stopbits = pend.stopbits
        /\ out.baudrate = pend.baudrate

\* the values a candidate list holds
Range(list) == {list[i] : i \in DOMAIN list}

\* every combination of one candidate per setting
Combos ==
    [baudrate : Range(baudrates), parity : Range(parities),
     stopbits : Range(stopbitss), rtscts : Range(rtsctss),
     dsrdtr : Range(dsrdtrs), xonxoff : Range(xonxoffs)]

\* C17: every configuration ser_init draws takes each setting from its
\* candidate list; wherever ser_init is about to run, every combination of
\* candidates can be the one drawn; the candidate lists never change.
C17_Draws ==
    /\ reconfAt >= 0 => pend \in Combos
    /\ \A h \in handles : h.cfg \in Combos
    /\ InitLists
    /\ pc = "top" /\ NeedsReopen(itr) /\ itr < horizon =>
          \A c \in Combos : ENABLED (SerInit /\ pend' = c)

C17_Witness ==
    /\ pc = "iter"
    /\ itr = open_interval
    /\ nopens = 2
    /\ IsOpen(ser)
    /\ CfgOf(ser).baudrate = 19200
    /\ CfgOf(ser).parity = PARITY_EVEN
    /\ InitLists

\* positions inside the loop body of run() and the calls it makes
LoopPositions ==
    {"top", "open", "mkdrain", "iter", "write", "flush", "drain", "report"}

\* C19: while every reopen succeeds and nobody cancels, run() is never in
\* a terminal state, every started iteration completes and every iteration
\* is followed by another one, as far as the loop is followed.
C19_Unbounded ==
    /\ [](pc \in LoopPositions)
    /\ (pc = "write") ~> (pc = "top")
    /\ <>(pc = "top" /\ itr = LiveHorizon)

C19_Witness ==
    /\ pc = "top"
    /\ itr = LiveHorizon
    /\ nopens = 2
    /\ dev = "silent"
    /\ rx_bytes = 0
    /\ horizon = LiveHorizon

\* C18: a run started without --aggressive opens the channel with the one
\* common parity and the one common number of stop bits.
C18_CommonModeOnly ==
    ~args.aggressive =>
        \A h \in handles :
            /\ h.cfg.parity = PARITY_NONE
            /\ h.cfg.stopbits = STOPBITS_ONE

\* C14: every call of the exclusion-enforcing generator ends, with a frame
\* or with GenerationError.
C14_Terminates == (pc = "get_tx") ~> (pc \in {"returned", "generr"})

\* character codes of the uppercase letters and the digits
AlnumCodes == (65..90) \cup (48..57)

\* frame f ends with the byte sequence t
EndsWith(f, t) ==
    /\ Len(f) >= Len(t)
    /\ SubSeq(f, Len(f) - Len(t) + 1, Len(f)) = t

\* C15: with a non-empty terminator list, the ASCII frame returned for a
\* requested length n has exactly n characters, ends with a terminator of
\* the list, and has only uppercase letters and digits before it.
C15_AsciiFrame ==
    pc = "returned" /\ cls = "SFuzz" /\ ascii /\ Len(ascii_newlines) > 0 =>
        /\ Len(tx) = chunk_size
        /\ \E nl \in Range(ascii_newlines) :
              /\ EndsWith(tx, tobytes(nl))
              /\ \A i \in 1..(Len(tx) - Len(nl)) : tx[i] \in AlnumCodes

\* C16: the binary frame returned for a requested length n has exactly n
\* bytes, and the frames a call can return are all sequences of n values
\* of 0..255: every value is possible at every position, whatever the
\* other positions hold.
C16_BinaryFrame ==
    cls = "SFuzz" /\ ~ascii =>
        /\ pc = "get_tx" =>
              get_tx(chunk_size) = [1..chunk_size -> 0..255]
        /\ pc = "returned" =>
              /\ Len(tx) = chunk_size
              /\ \A i \in 1..Len(tx) : tx[i] \in 0..255

C16_Witness ==
    /\ pc = "returned"
    /\ cls = "SFuzz"
    /\ ~ascii
    /\ chunk_size = 2
    /\ tx = <<255, 0>>

\* the bytes the machine must not receive
Forbidden == {3, 131, 27, 155, 42, 88, 89, 90}

\* C20: a frame returned by the exclusion-enforcing generator has the
\* requested length and no forbidden byte, and is the candidate as drawn;
\* a candidate with a forbidden byte can only be dropped, and no frame
\* exists before a candidate has passed.
C20_NoForbidden ==
    cls = "MyFuzz" =>
        /\ pc = "returned" =>
              /\ Len(tx) = chunk_size
              /\ \A i \in 1..Len(tx) : tx[i] \notin Forbidden
              /\ tx = ret
        /\ pc = "check" /\ (\E i \in 1..Len(ret) : ret[i] \in Forbidden) =>
              /\ ENABLED MyGetTxReject
              /\ ~ENABLED MyGetTxReturn
        /\ pc # "returned" => tx = <<>>

C20_Witness ==
    /\ pc = "returned"
    /\ cls = "MyFuzz"
    /\ chunk_size = 2
    /\ tx = <<91, 2>>
    /\ ret = tx

\* bytes a drain in progress has accumulated and not yet returned
InDrain == IF pc \in {"mkdrain", "drain"} THEN Len(ret) ELSE 0

\* C21: the bytes read by the drain of mkser are in no total, in no record
\* and in no response: the received total is the sum of the lengths of the
\* txrx results alone, and every byte the device has sent is either one
\* mkser dropped, one a txrx drain returned, or one still to be read.
C21_StaleDropped ==
    /\ pc \in BetweenRoundTrips => rx_bytes = wireRx
    /\ pc \in {"write", "flush", "drain"} => rx_bytes = wireRx
    /\ pc = "report" => rx_bytes + Len(rx) = wireRx
    /\ Len(dropped) + wireRx + InDrain + Len(rxbuf) = devcnt
    /\ \A i \in 1..Len(dropped) :
          /\ \A j \in 1..Len(rx) : rx[j] # dropped[i]
          /\ out.kind = "record" =>
                \A j \in 1..Len(out.rx) : out.rx[j] # dropped[i]

C21_Witness ==
    /\ pc = "top"
    /\ dev = "talker"
    /\ Len(dropped) > 0
    /\ out.kind = "record"
    /\ rx_bytes = Len(out.rx)
    /\ rx_bytes > 0
    /\ devcnt = Len(dropped) + rx_bytes

\* the first n bytes the device sends
Sent(n) == [i \in 1..n |-> i % 256]

\* C22: against a device that can send for ever, flushInput returns; no
\* read is made once max_size bytes are accumulated, so the result is
\* shorter than 2 * max_size, and it holds the bytes taken off the channel
\* in the order the reads returned them, the rest still waiting.
C22_DrainTerminates ==
    /\ [](/\ Len(ret) < 2 * max_size
          /\ ret \o rxbuf = Sent(devcnt)
          /\ Len(ret) >= max_size => ~ENABLED FlushInputRead
          /\ pc = "iter" => age >= IdleTimeout \/ Len(ret) >= max_size)
    /\ <>(pc = "iter")

C22_Witness ==
    /\ pc = "iter"
    /\ dev = "stream"
    /\ Len(ret) = 2 * max_size - 1
    /\ ret = Sent(2 * max_size - 1)
    /\ dropped = ret
    /\ age = 0

====
